---- MODULE Spec2Model ----
(***************************************************************************)
(* Model of the custom-key substitution codec (utils/cipherUtils) and of   *)
(* the CipherWorkspace component that drives it.                           *)
(*                                                                         *)
(* A JavaScript string is modelled as a sequence of UTF-16 code units      *)
(* (integers), because the code indexes strings by code unit (key[i],      *)
(* split('')) in some places and iterates them by code point (for..of) in  *)
(* others.  "ABC" is <<65, 66, 67>>.                                       *)
(***************************************************************************)
EXTENDS Integers, Sequences, FiniteSets, TLC

VARIABLES
    \* --- codec harness: the arguments of a call and what it returned
    argKey,         \* key: string
    argText,        \* input / encoded: string
    argSep,         \* separator: string
    op,             \* name of the function applied last ("none" before any call)
    ret,            \* what that call returned
    prev,           \* what the call before it returned (pipelines: encode-then-decode, clean-then-clean)
    \* --- CipherWorkspace component state (React useState cells)
    keyString,
    inputText,
    outputText,
    mode,
    validationMsg,
    \* --- observer of the workspace event sequence (not program state)
    phase,
    origInput

harnessVars == <<argKey, argText, argSep, op, ret, prev>>
workspaceVars == <<keyString, inputText, outputText, mode, validationMsg>>
observerVars == <<phase, origInput>>
vars == <<argKey, argText, argSep, op, ret, prev,
          keyString, inputText, outputText, mode, validationMsg, phase, origInput>>

(***************************************************************************)
(* Code units used in the bounded input sets.                              *)
(***************************************************************************)
Ch == [A |-> 65, B |-> 66, C |-> 67, X |-> 88, Y |-> 89, Z |-> 90,
       L |-> 76, a |-> 97, x |-> 120, bang |-> 33,
       space |-> 32, newline |-> 10, tab |-> 9,
       d0 |-> 48, d1 |-> 49, d2 |-> 50, d3 |-> 51, d5 |-> 53, d9 |-> 57,
       plus |-> 43, minus |-> 45, comma |-> 44, dot |-> 46,
       hi |-> 55357,       \* U+D83D, a high (leading) surrogate
       lo0 |-> 56832,      \* U+DE00, a low (trailing) surrogate
       lo1 |-> 56833]      \* U+DE01, a low (trailing) surrogate

\* All sequences over alphabet S of length 0..n.
SeqsUpTo(S, n) == UNION {[1..k -> S] : k \in 0..n}

Range(s) == {s[i] : i \in 1..Len(s)}

RECURSIVE Flatten(_)
\* Array.prototype.join(''): concatenation of a sequence of strings.
Flatten(parts) ==
    IF parts = <<>> THEN <<>> ELSE Head(parts) \o Flatten(Tail(parts))

RECURSIVE join(_, _)
\* Array.prototype.join(separator)
join(parts, sep) ==
    IF parts = <<>> THEN <<>>
    ELSE IF Len(parts) = 1 THEN Head(parts)
    ELSE Head(parts) \o sep \o join(Tail(parts), sep)

(***************************************************************************)
(* ECMAScript WhiteSpace + LineTerminator: what String.prototype.trim      *)
(* strips and what the regular expression class \s matches.                *)
(***************************************************************************)
IsWhiteSpace(c) ==
    \/ c \in {9, 10, 11, 12, 13, 32, 160, 5760, 8232, 8233, 8239, 8287, 12288, 65279}
    \/ (c >= 8192 /\ c <= 8202)

RECURSIVE trimStart(_)
trimStart(s) ==
    IF s # <<>> /\ IsWhiteSpace(Head(s)) THEN trimStart(Tail(s)) ELSE s

RECURSIVE trimEnd(_)
trimEnd(s) ==
    IF s # <<>> /\ IsWhiteSpace(s[Len(s)]) THEN trimEnd(SubSeq(s, 1, Len(s) - 1)) ELSE s

\* String.prototype.trim
trim(s) == trimEnd(trimStart(s))

\* The 0-9 test of the continuous decoder: code >= 48 && code <= 57
IsDigit(c) == c >= 48 /\ c <= 57

RECURSIVE toString(_)
\* Number.prototype.toString() of a non-negative integer: its decimal digits.
toString(n) ==
    IF n < 10 THEN <<48 + n>> ELSE toString(n \div 10) \o <<48 + (n % 10)>>

(***************************************************************************)
(* cipherUtils: key functions                                              *)
(***************************************************************************)
RECURSIVE generateKeyMapLoop(_, _, _)
generateKeyMapLoop(key, i, map) ==
    IF i >= Len(key) THEN map
    ELSE LET char == key[i + 1] IN
         IF char \notin DOMAIN map
         THEN generateKeyMapLoop(key, i + 1, map @@ (char :> i + 1))
         ELSE generateKeyMapLoop(key, i + 1, map)

RECURSIVE generateKeyMapLastWinsLoop(_, _, _)
generateKeyMapLastWinsLoop(key, i, map) ==
    IF i >= Len(key) THEN map
    ELSE LET char == key[i + 1] IN
         IF DOMAIN map = {}
         THEN generateKeyMapLastWinsLoop(key, i + 1, (char :> i + 1))
         ELSE generateKeyMapLastWinsLoop(key, i + 1, (char :> i + 1) @@ map)

\* Mutant of generateKeyMap: the map.has(char) test is dropped, so a later
\* occurrence overwrites the index of an earlier one.
generateKeyMap_lastWins(key) == generateKeyMapLastWinsLoop(key, 0, <<>>)

RECURSIVE generateKeyMapZeroBasedLoop(_, _, _)
generateKeyMapZeroBasedLoop(key, i, map) ==
    IF i >= Len(key) THEN map
    ELSE LET char == key[i + 1] IN
         IF char \notin DOMAIN map
         THEN generateKeyMapZeroBasedLoop(key, i + 1, map @@ (char :> i))
         ELSE generateKeyMapZeroBasedLoop(key, i + 1, map)

\* Mutant of generateKeyMap: map.set(char, i), the 0-based position.
generateKeyMap_zeroBased(key) == generateKeyMapZeroBasedLoop(key, 0, <<>>)

\* generateKeyMap(key): Map<string, number>, a function from code unit to index.
generateKeyMap(key) == generateKeyMapLoop(key, 0, <<>>)

RECURSIVE insertionOrder(_, _)
\* new Set(array) followed by Array.from: the distinct elements in order of
\* first insertion.
insertionOrder(arr, acc) ==
    IF arr = <<>> THEN acc
    ELSE IF Head(arr) \in Range(acc)
         THEN insertionOrder(Tail(arr), acc)
         ELSE insertionOrder(Tail(arr), Append(acc, Head(arr)))

\* Mutant of cleanKey: only a repeat of the immediately preceding character is
\* dropped.
cleanKey_adjacentOnly(key) ==
    LET keep == {i \in 1..Len(key) : i = 1 \/ key[i] # key[i - 1]}
        F[i \in 0..Len(key)] ==
            IF i = 0 THEN <<>>
            ELSE IF i \in keep THEN Append(F[i - 1], key[i]) ELSE F[i - 1]
    IN F[Len(key)]

\* cleanKey(key) = Array.from(new Set(key.split(''))).join('')
\* key.split('') is the sequence of the key's code units.
cleanKey(key) == insertionOrder(key, <<>>)

IsHighSurrogate(c) == c >= 55296 /\ c <= 56319
IsLowSurrogate(c) == c >= 56320 /\ c <= 57343

RECURSIVE codePoints(_)
\* String.prototype[Symbol.iterator]: the string cut into code points; a high
\* surrogate directly followed by a low surrogate is one element of two code
\* units, every other code unit is an element of its own.
codePoints(s) ==
    IF s = <<>> THEN <<>>
    ELSE IF Len(s) >= 2 /\ IsHighSurrogate(s[1]) /\ IsLowSurrogate(s[2])
         THEN <<SubSeq(s, 1, 2)>> \o codePoints(SubSeq(s, 3, Len(s)))
         ELSE <<SubSeq(s, 1, 1)>> \o codePoints(Tail(s))

RECURSIVE getDuplicateCharsLoop(_, _, _)
getDuplicateCharsLoop(chars, seen, duplicates) ==
    IF chars = <<>> THEN duplicates
    ELSE LET char == Head(chars) IN
         getDuplicateCharsLoop(Tail(chars), seen \cup {char},
             IF char \in seen /\ char \notin Range(duplicates)
             THEN Append(duplicates, char) ELSE duplicates)

\* getDuplicateChars(key): string[]; `for (const char of key)` walks code points.
getDuplicateChars(key) == getDuplicateCharsLoop(codePoints(key), {}, <<>>)

(***************************************************************************)
(* cipherUtils: whitespace sanitizer                                       *)
(***************************************************************************)
\* sanitizeBase64Input(str) = str.replace(/\s/g, '')
sanitizeBase64Input(str) == SelectSeq(str, LAMBDA c : ~IsWhiteSpace(c))

(***************************************************************************)
(* cipherUtils: encoder                                                    *)
(***************************************************************************)
\* Mutant of encodeChar: the white-space exemption is dropped, every unmapped
\* character raises hasUnmapped.
encodeChar_flagsWhitespace(char, keyMap) ==
    IF char \in DOMAIN keyMap
    THEN [token |-> toString(keyMap[char]), unmapped |-> FALSE]
    ELSE [token |-> <<char>>, unmapped |-> TRUE]

\* Loop body of encodeString for one input character: the token pushed and
\* whether the character raises hasUnmapped.
encodeChar(char, keyMap) ==
    IF char \in DOMAIN keyMap
    THEN [token |-> toString(keyMap[char]), unmapped |-> FALSE]
    ELSE [token |-> <<char>>, unmapped |-> trim(<<char>>) # <<>>]

RECURSIVE encodeLoop(_, _, _, _, _)
encodeLoop(input, keyMap, i, result, hasUnmapped) ==
    IF i >= Len(input) THEN [result |-> result, hasUnmapped |-> hasUnmapped]
    ELSE LET e == encodeChar(input[i + 1], keyMap) IN
         encodeLoop(input, keyMap, i + 1, Append(result, e.token),
                    hasUnmapped \/ e.unmapped)

\* Mutant of encodeString: result.join('') instead of result.join(separator).
encodeString_noSeparator(input, keyMap, separator) ==
    IF input = <<>> THEN [result |-> <<>>, hasUnmapped |-> FALSE]
    ELSE LET r == encodeLoop(input, keyMap, 0, <<>>, FALSE) IN
         [result |-> Flatten(r.result), hasUnmapped |-> r.hasUnmapped]

\* encodeString(input, keyMap, separator): {result, hasUnmapped}
encodeString(input, keyMap, separator) ==
    IF input = <<>> THEN [result |-> <<>>, hasUnmapped |-> FALSE]
    ELSE LET r == encodeLoop(input, keyMap, 0, <<>>, FALSE) IN
         [result |-> join(r.result, separator), hasUnmapped |-> r.hasUnmapped]

(***************************************************************************)
(* cipherUtils: decoder                                                    *)
(***************************************************************************)
RECURSIVE digitPrefixValue(_, _, _)
\* Value of the longest prefix of decimal digits of s; seen tells whether
\* at least one digit was read.
digitPrefixValue(s, acc, seen) ==
    IF s # <<>> /\ IsDigit(Head(s))
    THEN digitPrefixValue(Tail(s), 10 * acc + (Head(s) - 48), TRUE)
    ELSE [value |-> acc, seen |-> seen]

\* parseInt(string, 10): leading white space is skipped, one sign is accepted,
\* then the longest prefix of digits is converted and whatever follows it is
\* ignored; NaN when there is no digit at that place.
parseInt(string) ==
    LET s == trimStart(string)
        negative == s # <<>> /\ Head(s) = 45
        signed == s # <<>> /\ Head(s) \in {43, 45}
        body == IF signed THEN Tail(s) ELSE s
        d == digitPrefixValue(body, 0, FALSE)
    IN IF d.seen
       THEN [nan |-> FALSE, value |-> IF negative THEN 0 - d.value ELSE d.value]
       ELSE [nan |-> TRUE, value |-> 0]

isNaN(n) == n.nan

RECURSIVE splitLoop(_, _, _, _)
splitLoop(s, sep, cur, out) ==
    IF s = <<>> THEN Append(out, cur)
    ELSE IF Len(s) >= Len(sep) /\ SubSeq(s, 1, Len(sep)) = sep
         THEN splitLoop(SubSeq(s, Len(sep) + 1, Len(s)), sep, <<>>, Append(out, cur))
         ELSE splitLoop(Tail(s), sep, Append(cur, Head(s)), out)

\* String.prototype.split(separator) for a non-empty string separator.
split(s, sep) == splitLoop(s, sep, <<>>, <<>>)

RECURSIVE splitWhitespaceLoop(_, _, _)
splitWhitespaceLoop(s, cur, out) ==
    IF s = <<>> THEN Append(out, cur)
    ELSE IF IsWhiteSpace(Head(s))
         THEN splitWhitespaceLoop(trimStart(s), <<>>, Append(out, cur))
         ELSE splitWhitespaceLoop(Tail(s), Append(cur, Head(s)), out)

\* String.prototype.split(/\s+/): cut at every maximal run of white space.
splitWhitespace(s) == splitWhitespaceLoop(s, <<>>, <<>>)

\* Mutant of decodeChar: the white-space exemption is dropped, every non-digit
\* raises hasErrors.
decodeChar_flagsWhitespace(char, key) ==
    IF IsDigit(char)
    THEN LET index == parseInt(<<char>>).value IN
         IF index > 0 /\ index <= Len(key)
         THEN [piece |-> <<key[index]>>, err |-> FALSE]
         ELSE [piece |-> <<char>>, err |-> TRUE]
    ELSE [piece |-> <<char>>, err |-> TRUE]

\* Loop body of the continuous mode for one character of the encoded text.
decodeChar(char, key) ==
    IF IsDigit(char)
    THEN LET index == parseInt(<<char>>).value IN
         IF index > 0 /\ index <= Len(key)
         THEN [piece |-> <<key[index]>>, err |-> FALSE]
         ELSE [piece |-> <<char>>, err |-> TRUE]
    ELSE [piece |-> <<char>>, err |-> trim(<<char>>) # <<>>]

\* Mutant of decodePart: index < key.length instead of index <= key.length,
\* so the last key position is treated as out of range.
decodePart_strictUpper(part, key) ==
    LET index == parseInt(part) IN
    IF ~isNaN(index)
    THEN IF index.value > 0 /\ index.value < Len(key)
         THEN [piece |-> <<key[index.value]>>, err |-> FALSE]
         ELSE [piece |-> part, err |-> TRUE]
    ELSE [piece |-> part, err |-> TRUE]

\* Loop body of the separator mode for one non-empty part.
decodePart(part, key) ==
    LET index == parseInt(part) IN
    IF ~isNaN(index)
    THEN IF index.value > 0 /\ index.value <= Len(key)
         THEN [piece |-> <<key[index.value]>>, err |-> FALSE]
         ELSE [piece |-> part, err |-> TRUE]
    ELSE [piece |-> part, err |-> TRUE]

RECURSIVE decodeContinuousLoop(_, _, _, _, _)
decodeContinuousLoop(encoded, key, i, result, hasErrors) ==
    IF i >= Len(encoded) THEN [result |-> result, hasErrors |-> hasErrors]
    ELSE LET d == decodeChar(encoded[i + 1], key) IN
         decodeContinuousLoop(encoded, key, i + 1, Append(result, d.piece),
                              hasErrors \/ d.err)

RECURSIVE decodePartsLoop(_, _, _, _, _)
decodePartsLoop(parts, key, i, result, hasErrors) ==
    IF i >= Len(parts) THEN [result |-> result, hasErrors |-> hasErrors]
    ELSE IF parts[i + 1] = <<>>
         THEN decodePartsLoop(parts, key, i + 1, result, hasErrors)
         ELSE LET d == decodePart(parts[i + 1], key) IN
              decodePartsLoop(parts, key, i + 1, Append(result, d.piece),
                              hasErrors \/ d.err)

\* The parts the separator mode iterates over.
decodeParts(encoded, separator) ==
    IF separator = <<32>> THEN splitWhitespace(encoded) ELSE split(encoded, separator)

\* Mutant of decodeString: the early return tests only !encoded, not !key.
decodeString_noKeyGuard(encoded, key, separator) ==
    IF encoded = <<>> THEN [result |-> <<>>, hasErrors |-> FALSE]
    ELSE LET r == IF separator = <<>>
                  THEN decodeContinuousLoop(encoded, key, 0, <<>>, FALSE)
                  ELSE decodePartsLoop(decodeParts(encoded, separator), key, 0, <<>>, FALSE)
         IN [result |-> Flatten(r.result), hasErrors |-> r.hasErrors]

\* decodeString(encoded, key, separator): {result, hasErrors}
decodeString(encoded, key, separator) ==
    IF encoded = <<>> \/ key = <<>> THEN [result |-> <<>>, hasErrors |-> FALSE]
    ELSE LET r == IF separator = <<>>
                  THEN decodeContinuousLoop(encoded, key, 0, <<>>, FALSE)
                  ELSE decodePartsLoop(decodeParts(encoded, separator), key, 0, <<>>, FALSE)
         IN [result |-> Flatten(r.result), hasErrors |-> r.hasErrors]

\* PRESETS.BASE64 =
\* "ABCDEFGHIJKLMNOPQRSTUVWXYZabcdefghijklmnopqrstuvwxyz0123456789+/=:;,-."
PRESETS_BASE64 ==
    [i \in 1..26 |-> 64 + i] \o [i \in 1..26 |-> 96 + i] \o [i \in 1..10 |-> 47 + i]
        \o <<43, 47, 61, 58, 59, 44, 45, 46>>

(***************************************************************************)
(* Initial values of the two halves of the state.                          *)
(***************************************************************************)
\* CipherWorkspace after its first render (the useState initial values).
WorkspaceInit ==
    /\ keyString = PRESETS_BASE64
    /\ inputText = <<>>
    /\ outputText = <<>>
    /\ mode = "encode"
    /\ validationMsg = "null"
    /\ phase = 0
    /\ origInput = <<>>

\* The harness before any call.
HarnessIdle ==
    /\ argKey = <<>>
    /\ argText = <<>>
    /\ argSep = <<>>
    /\ op = "none"
    /\ ret = <<>>
    /\ prev = <<>>

(***************************************************************************)
(* SpecKey: generateKeyMap, cleanKey and getDuplicateChars applied to      *)
(* every key over KeyOpsAlphabet of at most KeyOpsMaxLen code units.       *)
(***************************************************************************)
KeyOpsMaxLen == 4

KeyOpsAlphabet == {Ch.A, Ch.B, Ch.hi, Ch.lo0, Ch.lo1}

InitKey ==
    /\ argKey \in SeqsUpTo(KeyOpsAlphabet, KeyOpsMaxLen)
    /\ argText = <<>>
    /\ argSep = <<>>
    /\ op = "none"
    /\ ret = <<>>
    /\ prev = <<>>
    /\ WorkspaceInit

CallGenerateKeyMap ==
    /\ op = "none"
    /\ op' = "generateKeyMap"
    /\ ret' = generateKeyMap(argKey)
    /\ prev' = ret
    /\ UNCHANGED <<argKey, argText, argSep, workspaceVars, observerVars>>

CallCleanKey ==
    /\ op = "none"
    /\ op' = "cleanKey"
    /\ ret' = cleanKey(argKey)
    /\ prev' = ret
    /\ UNCHANGED <<argKey, argText, argSep, workspaceVars, observerVars>>

\* cleanKey(cleanKey(key))
CallCleanKeyAgain ==
    /\ op = "cleanKey"
    /\ op' = "cleanKey.cleanKey"
    /\ ret' = cleanKey(ret)
    /\ prev' = ret
    /\ UNCHANGED <<argKey, argText, argSep, workspaceVars, observerVars>>

CallGetDuplicateChars ==
    /\ op = "none"
    /\ op' = "getDuplicateChars"
    /\ ret' = getDuplicateChars(argKey)
    /\ prev' = ret
    /\ UNCHANGED <<argKey, argText, argSep, workspaceVars, observerVars>>

\* getDuplicateChars(cleanKey(key))
CallGetDuplicateCharsOfClean ==
    /\ op = "cleanKey"
    /\ op' = "cleanKey.getDuplicateChars"
    /\ ret' = getDuplicateChars(ret)
    /\ prev' = ret
    /\ UNCHANGED <<argKey, argText, argSep, workspaceVars, observerVars>>

NextKey ==
    \/ CallGenerateKeyMap
    \/ CallCleanKey
    \/ CallCleanKeyAgain
    \/ CallGetDuplicateChars
    \/ CallGetDuplicateCharsOfClean

SpecKey == InitKey /\ [][NextKey]_vars

\* Positions of code unit c in string s (1-based).
Positions(s, c) == {i \in 1..Len(s) : s[i] = c}

\* 1-based position of the first occurrence of c in s.
FirstPosition(s, c) == CHOOSE i \in Positions(s, c) : \A j \in Positions(s, c) : i <= j

Min(S) == CHOOSE m \in S : \A n \in S : m <= n

RECURSIVE PickInOrder(_, _)
\* The characters of s at the positions P, in increasing position order.
PickInOrder(s, P) ==
    IF P = {} THEN <<>>
    ELSE <<s[Min(P)]>> \o PickInOrder(s, P \ {Min(P)})

\* s with every character but its first occurrence removed.
FirstOccurrences(s) ==
    PickInOrder(s, {i \in 1..Len(s) : i = FirstPosition(s, s[i])})

\* The code units that occur two or more times in s.
RepeatedUnits(s) == {c \in Range(s) : Cardinality(Positions(s, c)) >= 2}

\* C6: for every key, generateKeyMap(key) has exactly the key's characters as
\* its domain and maps each to the 0-based position of its first occurrence
\* plus one; later occurrences never change the value.
C6_KeyMapFirstOccurrence ==
    op = "generateKeyMap" =>
        /\ DOMAIN ret = Range(argKey)
        /\ \A c \in Range(argKey) : ret[c] = (FirstPosition(argKey, c) - 1) + 1

\* C6 witness: the key "AAB" has been mapped, A to 1 and B to 3.
C6_Witness ==
    /\ op = "generateKeyMap"
    /\ argKey = <<Ch.A, Ch.A, Ch.B>>
    /\ ret[Ch.A] = 1
    /\ ret[Ch.B] = 3

\* C7 (the claim as stated, characters being code units): cleanKey keeps
\* exactly the first occurrence of each character in order, is idempotent,
\* leaves getDuplicateChars nothing to report, and getDuplicateChars(key)
\* reports exactly the characters that occur two or more times in the key.
\* The reported strings are compared by the code units they consist of.
C7_CleanAndDuplicates ==
    /\ op = "cleanKey" => ret = FirstOccurrences(argKey)
    /\ op = "cleanKey.cleanKey" => ret = prev
    /\ op = "cleanKey.getDuplicateChars" => ret = <<>>
    /\ op = "getDuplicateChars" =>
           UNION {Range(d) : d \in Range(ret)} = RepeatedUnits(argKey)

\* The three cleanKey parts of C7 on their own (they hold of the code).
C7_CleanKeyParts ==
    /\ op = "cleanKey" => ret = FirstOccurrences(argKey)
    /\ op = "cleanKey.cleanKey" => ret = prev
    /\ op = "cleanKey.getDuplicateChars" => ret = <<>>

(***************************************************************************)
(* SpecCodec: encodeString and decodeString applied to bounded arguments.  *)
(***************************************************************************)
CodecMaxTextLen == 3

\* "ABCDEFGHIJKL": a key long enough for two-digit indices.
LongKey == [i \in 1..12 |-> 64 + i]

\* "AABCDEFGHIJL": a key of the same length with a repeated character.
LongDupKey == <<65>> \o [i \in 1..10 |-> 64 + i] \o <<76>>

\* "", "ABC", "AAB", "XYZ", " A", "ABCDEFGHIJKL"
CodecKeys ==
    {<<>>, <<Ch.A, Ch.B, Ch.C>>, <<Ch.A, Ch.A, Ch.B>>, <<Ch.X, Ch.Y, Ch.Z>>,
     <<Ch.space, Ch.A>>, LongKey}

CodecAlphabet ==
    {Ch.A, Ch.d0, Ch.d1, Ch.d2, Ch.d5, Ch.space, Ch.x, Ch.minus, Ch.comma}

\* "1 2 5", "12a3", "AB C", "1.5", "1\n2", "1 2   3"
ScenarioTexts ==
    {<<Ch.d1, Ch.space, Ch.d2, Ch.space, Ch.d5>>,
     <<Ch.d1, Ch.d2, Ch.a, Ch.d3>>,
     <<Ch.A, Ch.B, Ch.space, Ch.C>>,
     <<Ch.d1, Ch.dot, Ch.d5>>,
     <<Ch.d1, Ch.newline, Ch.d2>>,
     <<Ch.d1, Ch.space, Ch.d2, Ch.space, Ch.space, Ch.space, Ch.d3>>}

CodecTexts == SeqsUpTo(CodecAlphabet, CodecMaxTextLen) \cup ScenarioTexts

\* "", " ", ",", ", "
CodecSeparators == {<<>>, <<Ch.space>>, <<Ch.comma>>, <<Ch.comma, Ch.space>>}

InitCodec ==
    /\ argKey \in CodecKeys
    /\ argText \in CodecTexts
    /\ argSep \in CodecSeparators
    /\ op = "none"
    /\ ret = <<>>
    /\ prev = <<>>
    /\ WorkspaceInit

\* encodeString(text, generateKeyMap(key), sep)
CallEncode ==
    /\ op = "none"
    /\ op' = "encodeString"
    /\ ret' = encodeString(argText, generateKeyMap(argKey), argSep)
    /\ prev' = ret
    /\ UNCHANGED <<argKey, argText, argSep, workspaceVars, observerVars>>

\* decodeString(text, key, sep)
CallDecode ==
    /\ op = "none"
    /\ op' = "decodeString"
    /\ ret' = decodeString(argText, argKey, argSep)
    /\ prev' = ret
    /\ UNCHANGED <<argKey, argText, argSep, workspaceVars, observerVars>>

\* decodeString(encodeString(text, generateKeyMap(key), sep).result, key, sep)
CallDecodeEncoded ==
    /\ op = "encodeString"
    /\ op' = "encodeString.decodeString"
    /\ ret' = decodeString(ret.result, argKey, argSep)
    /\ prev' = ret
    /\ UNCHANGED <<argKey, argText, argSep, workspaceVars, observerVars>>

NextCodec ==
    \/ CallEncode
    \/ CallDecode

SpecCodec == InitCodec /\ [][NextCodec]_vars

(***************************************************************************)
(* SpecRoundTrip: encode, then decode what was encoded.                    *)
(***************************************************************************)
RtMaxKeyLen == 3
RtMaxTextLen == 3

RtKeys ==
    SeqsUpTo({Ch.A, Ch.B, Ch.C}, RtMaxKeyLen) \cup {LongKey, LongDupKey, PRESETS_BASE64}

\* Texts over "A", "B", "C", "L", and "1", "A1", "1L1" (the preset key holds digits).
RtTexts ==
    SeqsUpTo({Ch.A, Ch.B, Ch.C, Ch.L}, RtMaxTextLen)
        \cup {<<Ch.d1>>, <<Ch.A, Ch.d1>>, <<Ch.d1, Ch.L, Ch.d1>>}

\* " ", ",", "A", ", ", "-", and two that the round trip excludes: "" and "1"
RtSeparators ==
    {<<Ch.space>>, <<Ch.comma>>, <<Ch.A>>, <<Ch.comma, Ch.space>>, <<Ch.minus>>,
     <<>>, <<Ch.d1>>}

InitRoundTrip ==
    /\ argKey \in RtKeys
    /\ argText \in RtTexts
    /\ argSep \in RtSeparators
    /\ op = "none"
    /\ ret = <<>>
    /\ prev = <<>>
    /\ WorkspaceInit

NextRoundTrip ==
    \/ CallEncode
    \/ CallDecodeEncoded

SpecRoundTrip == InitRoundTrip /\ [][NextRoundTrip]_vars

(***************************************************************************)
(* Reference notions the claims are stated with.                           *)
(***************************************************************************)
NoRepeatedChar(key) == \A i, j \in 1..Len(key) : key[i] = key[j] => i = j

AllDigits(s) == s # <<>> /\ \A i \in 1..Len(s) : IsDigit(s[i])

\* The token, white space at its ends aside, is an optional sign followed by
\* decimal digits and nothing else.
IsWholeInteger(tok) ==
    LET t == trim(tok) IN
    /\ t # <<>>
    /\ IF Head(t) \in {43, 45} THEN AllDigits(Tail(t)) ELSE AllDigits(t)

RECURSIVE DigitsValue(_)
DigitsValue(s) ==
    IF s = <<>> THEN 0
    ELSE 10 * DigitsValue(SubSeq(s, 1, Len(s) - 1)) + (s[Len(s)] - 48)

\* The integer a whole-integer token denotes.
IntegerValue(tok) ==
    LET t == trim(tok) IN
    IF Head(t) = 45 THEN 0 - DigitsValue(Tail(t))
    ELSE IF Head(t) = 43 THEN DigitsValue(Tail(t))
    ELSE DigitsValue(t)

\* The non-empty tokens of an encoded text in separator mode.
Tokens(encoded, sep) == SelectSeq(decodeParts(encoded, sep), LAMBDA t : t # <<>>)

SeparatorMode == op = "decodeString" /\ argSep # <<>> /\ argKey # <<>> /\ argText # <<>>

(***************************************************************************)
(* Claims about the codec.                                                 *)
(***************************************************************************)
RoundTripSeparator == argSep # <<>> /\ \A i \in 1..Len(argSep) : ~IsDigit(argSep[i])

\* C1: round trip. For every key without a repeated character, every input
\* made only of characters of the key and every non-empty separator holding
\* no decimal digit, decoding the encoded input gives the input back with
\* hasErrors false, and the encode step reports hasUnmapped false.
C1_RoundTrip ==
    ( /\ op = "encodeString.decodeString"
      /\ NoRepeatedChar(argKey)
      /\ Range(argText) \subseteq Range(argKey)
      /\ RoundTripSeparator )
    => /\ ret.result = argText
       /\ ret.hasErrors = FALSE
       /\ prev.hasUnmapped = FALSE

\* C1 witness: "CAB" went through key "ABC" with separator ", " as "3, 1, 2"
\* and came back.
C1_Witness ==
    /\ op = "encodeString.decodeString"
    /\ argKey = <<Ch.A, Ch.B, Ch.C>>
    /\ argText = <<Ch.C, Ch.A, Ch.B>>
    /\ argSep = <<Ch.comma, Ch.space>>
    /\ prev.result = <<Ch.d3, Ch.comma, Ch.space, Ch.d1, Ch.comma, Ch.space, Ch.d2>>
    /\ ret.result = argText

\* C9: the round trip does not need a duplicate-free key. For every non-empty
\* key, every input made only of characters of the key and every non-empty
\* separator holding no decimal digit, decoding the encoded input gives the
\* input back with hasErrors false.
C9_RoundTripAnyKey ==
    ( /\ op = "encodeString.decodeString"
      /\ argKey # <<>>
      /\ Range(argText) \subseteq Range(argKey)
      /\ RoundTripSeparator )
    => /\ ret.result = argText
       /\ ret.hasErrors = FALSE

\* C9 witness: "LAB" went through the key "AABCDEFGHIJL", which repeats A, as
\* "12 1 3" and came back.
C9_Witness ==
    /\ op = "encodeString.decodeString"
    /\ argKey = LongDupKey
    /\ ~NoRepeatedChar(argKey)
    /\ argText = <<Ch.L, Ch.A, Ch.B>>
    /\ argSep = <<Ch.space>>
    /\ prev.result = <<Ch.d1, Ch.d2, Ch.space, Ch.d1, Ch.space, Ch.d3>>
    /\ ret.result = argText
    /\ ret.hasErrors = FALSE

\* C2 (the claim as stated): in separator mode every non-empty token that is
\* not, as a whole, a valid integer is appended unchanged and sets hasErrors;
\* it is never replaced by a key character.  Whole-integer tokens contribute
\* what the decoder makes of them.
C2_InvalidTokenKept ==
    SeparatorMode =>
        LET toks == Tokens(argText, argSep)
            piece(t) == IF IsWholeInteger(t) THEN decodePart(t, argKey).piece ELSE t
            flagged(t) == IF IsWholeInteger(t) THEN decodePart(t, argKey).err ELSE TRUE
        IN /\ ret.result = Flatten([i \in 1..Len(toks) |-> piece(toks[i])])
           /\ ret.hasErrors = (\E i \in 1..Len(toks) : flagged(toks[i]))

\* C3: in separator mode a token that is a decimal integer n contributes
\* key[n-1] (0-based) and no error when 1 <= n <= key.length, and otherwise
\* its own text and hasErrors; the result is the concatenation of the
\* contributions in token order, no separator reinserted.  Tokens that are not
\* whole integers contribute what the decoder makes of them.
C3_IntegerTokens ==
    SeparatorMode =>
        LET toks == Tokens(argText, argSep)
            inRange(t) == IntegerValue(t) >= 1 /\ IntegerValue(t) <= Len(argKey)
            piece(t) == IF IsWholeInteger(t)
                        THEN IF inRange(t) THEN <<argKey[(IntegerValue(t) - 1) + 1]>> ELSE t
                        ELSE decodePart(t, argKey).piece
            flagged(t) == IF IsWholeInteger(t) THEN ~inRange(t)
                          ELSE decodePart(t, argKey).err
        IN /\ ret.result = Flatten([i \in 1..Len(toks) |-> piece(toks[i])])
           /\ ret.hasErrors = (\E i \in 1..Len(toks) : flagged(toks[i]))

\* C3 witness: key "ABC", "1 2 5", separator " " gave "AB5" with hasErrors.
C3_Witness ==
    /\ op = "decodeString"
    /\ argKey = <<Ch.A, Ch.B, Ch.C>>
    /\ argText = <<Ch.d1, Ch.space, Ch.d2, Ch.space, Ch.d5>>
    /\ argSep = <<Ch.space>>
    /\ ret = [result |-> <<Ch.A, Ch.B, Ch.d5>>, hasErrors |-> TRUE]

\* C4: in continuous mode (empty separator, non-empty key and text) each
\* character is handled on its own and in order: a digit d with
\* 1 <= d <= key.length gives key[d-1]; any other digit is kept and sets
\* hasErrors; a non-digit is kept and sets hasErrors only if it is not white
\* space.  So the result is as long as the text, and hasErrors is true iff the
\* text holds an out-of-range digit or a non-digit that is not white space.
C4_ContinuousMode ==
    (op = "decodeString" /\ argSep = <<>> /\ argKey # <<>> /\ argText # <<>>) =>
        LET d(c) == c - 48
            inRange(c) == IsDigit(c) /\ d(c) >= 1 /\ d(c) <= Len(argKey)
        IN /\ Len(ret.result) = Len(argText)
           /\ \A i \in 1..Len(argText) :
                  ret.result[i] = IF inRange(argText[i])
                                  THEN argKey[(d(argText[i]) - 1) + 1]
                                  ELSE argText[i]
           /\ ret.hasErrors =
                  (\E i \in 1..Len(argText) :
                       \/ IsDigit(argText[i]) /\ ~inRange(argText[i])
                       \/ ~IsDigit(argText[i]) /\ ~IsWhiteSpace(argText[i]))

\* C4 witness: key "XYZ", "12a3" in continuous mode gave "XYaZ" with hasErrors.
C4_Witness ==
    /\ op = "decodeString"
    /\ argKey = <<Ch.X, Ch.Y, Ch.Z>>
    /\ argText = <<Ch.d1, Ch.d2, Ch.a, Ch.d3>>
    /\ argSep = <<>>
    /\ ret = [result |-> <<Ch.X, Ch.Y, Ch.a, Ch.Z>>, hasErrors |-> TRUE]

\* C5: encodeString emits one token per input character in input order, the
\* decimal string of keyMap[c] when c is in the key map and c itself
\* otherwise, joined by the separator; hasUnmapped is true iff some input
\* character is absent from the key map and is not white space.
C5_EncodeTokens ==
    op = "encodeString" =>
        LET keyMap == generateKeyMap(argKey)
            token(c) == IF c \in DOMAIN keyMap THEN toString(keyMap[c]) ELSE <<c>>
        IN /\ ret.result = join([i \in 1..Len(argText) |-> token(argText[i])], argSep)
           /\ ret.hasUnmapped =
                  (\E i \in 1..Len(argText) :
                       argText[i] \notin DOMAIN keyMap /\ ~IsWhiteSpace(argText[i]))

\* C5 witness: key "ABC", "AB C", separator " " gave "1 2   3", hasUnmapped false.
C5_Witness ==
    /\ op = "encodeString"
    /\ argKey = <<Ch.A, Ch.B, Ch.C>>
    /\ argText = <<Ch.A, Ch.B, Ch.space, Ch.C>>
    /\ argSep = <<Ch.space>>
    /\ ret = [result |-> <<Ch.d1, Ch.space, Ch.d2, Ch.space, Ch.space, Ch.space, Ch.d3>>,
              hasUnmapped |-> FALSE]

\* C8: empty inputs give the empty result with the flag cleared whatever the
\* other arguments are: encodeString("", map, sep), decodeString("", key, sep)
\* and decodeString(text, "", sep), the last even when the text holds tokens
\* that would otherwise be reported as invalid.
C8_EmptyInputs ==
    /\ (op = "encodeString" /\ argText = <<>>) =>
           ret = [result |-> <<>>, hasUnmapped |-> FALSE]
    /\ (op = "decodeString" /\ (argText = <<>> \/ argKey = <<>>)) =>
           ret = [result |-> <<>>, hasErrors |-> FALSE]

\* C8 witness: "x-5" decoded with the empty key gave the empty result, while
\* the same text is reported as invalid under a non-empty key.
C8_Witness ==
    /\ op = "decodeString"
    /\ argKey = <<>>
    /\ argText = <<Ch.x, Ch.minus, Ch.d5>>
    /\ argSep = <<Ch.space>>
    /\ ret = [result |-> <<>>, hasErrors |-> FALSE]
    /\ decodeString(argText, <<Ch.A>>, argSep).hasErrors

(***************************************************************************)
(* SpecWorkspace: the CipherWorkspace component.  One action per event     *)
(* handler; a handler's setState calls take effect together.               *)
(*                                                                         *)
(* phase and origInput observe the event sequence: phase is 1 after a      *)
(* Process in encode mode (origInput is the input it read), 2 after a Swap *)
(* that directly follows it, 3 after a Process that directly follows that, *)
(* and 0 after anything else.                                              *)
(***************************************************************************)
WsMaxTextLen == 3

\* Re-encoding swapped text makes it longer each round; a Process whose output
\* would exceed this many code units is left out of the model.
WsMaxOutputLen == 5

\* const separator = ' '
separator == <<32>>

\* useMemo(() => generateKeyMap(keyString), [keyString])
keyMap == generateKeyMap(keyString)

\* useMemo(() => getDuplicateChars(keyString), [keyString])
duplicates == getDuplicateChars(keyString)

\* The preset, "", "AAB", " A"
WsKeys == {PRESETS_BASE64, <<>>, <<Ch.A, Ch.A, Ch.B>>, <<Ch.space, Ch.A>>}

\* Texts over "B" and " ", and "AB", "B!"
WsTexts ==
    SeqsUpTo({Ch.B, Ch.space}, WsMaxTextLen) \cup {<<Ch.A, Ch.B>>, <<Ch.B, Ch.bang>>}

InitWorkspace ==
    /\ HarnessIdle
    /\ WorkspaceInit

\* Key textarea onChange: setKeyString(e.target.value)
SetKeyString ==
    \E k \in WsKeys :
        /\ keyString' = k
        /\ phase' = 0
        /\ origInput' = <<>>
        /\ UNCHANGED <<inputText, outputText, mode, validationMsg, harnessVars>>

\* Input textarea onChange: setInputText(e.target.value)
SetInputText ==
    \E t \in WsTexts :
        /\ inputText' = t
        /\ phase' = 0
        /\ origInput' = <<>>
        /\ UNCHANGED <<keyString, outputText, mode, validationMsg, harnessVars>>

\* "Clear Input" button, rendered only while inputText is non-empty.
ClearInput ==
    /\ inputText # <<>>
    /\ inputText' = <<>>
    /\ phase' = 0
    /\ origInput' = <<>>
    /\ UNCHANGED <<keyString, outputText, mode, validationMsg, harnessVars>>

\* What handleProcess leaves in outputText and validationMsg, the encoder
\* being called with separator sep.
ProcessEffect(sep) ==
    IF trim(inputText) = <<>>
    THEN /\ outputText' = <<>>
         /\ validationMsg' = "null"
    ELSE IF mode = "encode"
    THEN LET cleanInput == sanitizeBase64Input(inputText)
             r == encodeString(cleanInput, keyMap, sep)
         IN /\ outputText' = r.result
            /\ validationMsg' = IF r.hasUnmapped THEN "warning" ELSE "null"
    ELSE LET r == decodeString(inputText, keyString, separator)
         IN /\ outputText' = r.result
            /\ validationMsg' = IF r.hasErrors THEN "error" ELSE "null"

\* How the observer follows a Process event.
ProcessObserved ==
    IF mode = "encode"
    THEN phase' = 1 /\ origInput' = inputText
    ELSE IF phase = 2
    THEN phase' = 3 /\ origInput' = origInput
    ELSE phase' = 0 /\ origInput' = <<>>

\* Mutant of handleProcess: the encoder is called with '' instead of the
\* component's separator.
HandleProcess_encodeNoSeparator ==
    /\ ProcessEffect(<<>>)
    /\ Len(outputText') <= WsMaxOutputLen
    /\ ProcessObserved
    /\ UNCHANGED <<keyString, inputText, mode, harnessVars>>

\* handleProcess (ENCODE / DECODE button).  Neither encodeString nor
\* decodeString throws, so the catch branch is never taken.
HandleProcess ==
    /\ ProcessEffect(separator)
    /\ Len(outputText') <= WsMaxOutputLen
    /\ ProcessObserved
    /\ UNCHANGED <<keyString, inputText, mode, harnessVars>>

\* swapMode ("Swap & Switch" button)
SwapMode ==
    /\ inputText' = IF outputText # <<>> THEN outputText ELSE <<>>
    /\ outputText' = <<>>
    /\ validationMsg' = "null"
    /\ mode' = IF mode = "encode" THEN "decode" ELSE "encode"
    /\ IF phase = 1
       THEN phase' = 2 /\ origInput' = origInput
       ELSE phase' = 0 /\ origInput' = <<>>
    /\ UNCHANGED <<keyString, harnessVars>>

\* handleCleanKey ("Fix Duplicates"), rendered only while duplicates.length > 0.
HandleCleanKey ==
    /\ Len(duplicates) > 0
    /\ keyString' = cleanKey(keyString)
    /\ phase' = 0
    /\ origInput' = <<>>
    /\ UNCHANGED <<inputText, outputText, mode, validationMsg, harnessVars>>

\* resetKey ("Reset to Base64")
ResetKey ==
    /\ keyString' = PRESETS_BASE64
    /\ phase' = 0
    /\ origInput' = <<>>
    /\ UNCHANGED <<inputText, outputText, mode, validationMsg, harnessVars>>

NextWorkspace ==
    \/ SetKeyString
    \/ SetInputText
    \/ ClearInput
    \/ HandleProcess
    \/ SwapMode
    \/ HandleCleanKey
    \/ ResetKey

SpecWorkspace == InitWorkspace /\ [][NextWorkspace]_vars

\* The input the sequence started from is not blank and each of its characters
\* that is not white space occurs in the current key.
EncodableInput ==
    /\ trim(origInput) # <<>>
    /\ \A i \in 1..Len(origInput) :
           ~IsWhiteSpace(origInput[i]) => origInput[i] \in Range(keyString)

\* Process, Swap & Switch, Process from encode mode ends in decode mode with
\* the input, white space removed, as the output and no validation message.
ProcessSwapProcess ==
    (phase = 3 /\ EncodableInput) =>
        /\ mode = "decode"
        /\ outputText = SelectSeq(origInput, LAMBDA c : ~IsWhiteSpace(c))
        /\ validationMsg = "null"

\* Swap & Switch moves the output into the input, clears the output and the
\* validation message, toggles the mode and leaves the key unchanged.
SwapAlone ==
    SwapMode =>
        /\ inputText' = outputText
        /\ outputText' = <<>>
        /\ validationMsg' = "null"
        /\ mode' # mode
        /\ mode' \in {"encode", "decode"}
        /\ keyString' = keyString

\* C10: starting in encode mode with a non-blank input whose characters other
\* than white space all occur in the current key, the event sequence Process,
\* Swap & Switch, Process with no key or input edit in between ends in decode
\* mode with the output equal to the original input with all white space
\* removed and no validation message shown; Swap & Switch alone moves the
\* output into the input, clears the output and the validation message,
\* toggles the mode and leaves the key unchanged.
C10_ProcessSwapProcess == []ProcessSwapProcess /\ [][SwapAlone]_vars

\* C10 witness: "B B" was encoded under the key "AAB" to "3 3", swapped into
\* the input and decoded to "BB".
C10_Witness ==
    /\ phase = 3
    /\ EncodableInput
    /\ keyString = <<Ch.A, Ch.A, Ch.B>>
    /\ origInput = <<Ch.B, Ch.space, Ch.B>>
    /\ inputText = <<Ch.d3, Ch.space, Ch.d3>>
    /\ outputText = <<Ch.B, Ch.B>>
    /\ mode = "decode"

====
